---- MODULE Spec2Model ----
(***************************************************************************)
(* Model of src/bot.py: HTMLCleaner.clean, extract_video_id and the        *)
(* message handlers of YouTubeTranscriberBot.                               *)
(* Strings are sequences of one-character strings.                          *)
(***************************************************************************)
EXTENDS Integers, Sequences, FiniteSets

VARIABLES
  text,          \* HTMLCleaner.clean: the argument
  cleaned,       \* HTMLCleaner.clean(text)
  recleaned,     \* HTMLCleaner.clean(cleaned)
  cpc,           \* "in" -> "out" -> "twice"
  url,           \* extract_video_id: the argument
  extracted,      \* extract_video_id(url), None when no pattern matches
  epc,           \* "in" -> "out"
  chat_data,     \* context.chat_data of each chat: 'transcript' and 'video_id'
  pc,            \* where the handler of the current message stands
  chat_id,       \* update.effective_chat.id of the current message
  message,       \* update.message.text of the current message
  handler,       \* the handler handle_message chose: "link" or "question"
  video_id,      \* _process_youtube_link: video_id
  captions,      \* _get_captions: the languages of data["items"]
  caption_request, \* _get_captions: the request for the caption's text
  replies,       \* the reply_html calls made for the current message
  calls,         \* outbound calls made for the current message
  raised,        \* the error kind the current message ran into
  answer_args,   \* the arguments of _get_answer for the current message
  retrieved      \* per chat, the caption text of the last stored retrieval

cleanerVars == <<text, cleaned, recleaned, cpc>>
parserVars == <<url, extracted, epc>>
botVars ==
  <<chat_data, pc, chat_id, message, handler, video_id, captions,
    caption_request, replies, calls, raised, answer_args, retrieved>>
vars == <<cleanerVars, parserVars, botVars>>

\* Python's None, told apart from every string (a string is a sequence of characters)
None == <<"None">>

(***************************************************************************)
(* Character classes of Python's re module                                  *)
(***************************************************************************)
LowerChars ==
  {"a","b","c","d","e","f","g","h","i","j","k","l","m",
   "n","o","p","q","r","s","t","u","v","w","x","y","z"}

UpperChars ==
  {"A","B","C","D","E","F","G","H","I","J","K","L","M",
   "N","O","P","Q","R","S","T","U","V","W","X","Y","Z"}

DigitChars == {"0","1","2","3","4","5","6","7","8","9"}

\* \w, the class \b is defined by
WordChars == LowerChars \cup UpperChars \cup DigitChars \cup {"_"}

\* s[p..] starts with t
StartsWithAt(s, p, t) ==
  /\ p >= 1
  /\ p + Len(t) - 1 <= Len(s)
  /\ SubSeq(s, p, p + Len(t) - 1) = t

\* index of the first ">" at or after p, 0 when there is none: [^>]*>
FirstGt(s, p) ==
  IF \E q \in p..Len(s) : s[q] = ">"
  THEN CHOOSE q \in p..Len(s) : s[q] = ">" /\ \A r \in p..(q - 1) : s[r] # ">"
  ELSE 0

\* last index of the longest run of [a-z] starting at p (p - 1 when empty): [a-z]+
RECURSIVE LowerRunEnd(_, _)
LowerRunEnd(s, p) ==
  IF p <= Len(s) /\ s[p] \in LowerChars THEN LowerRunEnd(s, p + 1) ELSE p - 1

(***************************************************************************)
(* HTMLCleaner                                                              *)
(***************************************************************************)
ALLOWED_TAGS ==
  { <<"b">>, <<"i">>, <<"u">>, <<"s","t","r","o","n","g">>,
    <<"e","m">>, <<"c","o","d","e">>, <<"p","r","e">> }

\* (?:b|i|u|strong|em|code|pre)\b matches at p
AllowedAt(s, p) ==
  \E t \in ALLOWED_TAGS :
    /\ StartsWithAt(s, p, t)
    /\ (p + Len(t) > Len(s) \/ s[p + Len(t)] \notin WordChars)

\* end of the match of </?(?!(?:...)\b)[^>]*> at p, 0 when it does not match.
\* The optional slash is tried first and given back when the rest fails.
PatternEnd(s, p) ==
  IF p > Len(s) \/ s[p] # "<" THEN 0
  ELSE IF /\ p + 1 <= Len(s)
          /\ s[p + 1] = "/"
          /\ ~AllowedAt(s, p + 2)
          /\ FirstGt(s, p + 2) # 0
       THEN FirstGt(s, p + 2)
  ELSE IF ~AllowedAt(s, p + 1) THEN FirstGt(s, p + 1)
  ELSE 0

\* re.sub(pattern, '', text): leftmost non-overlapping matches are removed
RECURSIVE ReSub(_, _)
ReSub(s, p) ==
  IF p > Len(s) THEN <<>>
  ELSE LET e == PatternEnd(s, p)
       IN IF e # 0 THEN ReSub(s, e + 1) ELSE <<s[p]>> \o ReSub(s, p + 1)

\* for match in re.finditer(r'<([a-z]+)[^>]*>', text): append allowed names
RECURSIVE opened_tags(_, _)
opened_tags(s, p) ==
  IF p > Len(s) THEN <<>>
  ELSE LET r == LowerRunEnd(s, p + 1)
           e == FirstGt(s, r + 1)
           tag == SubSeq(s, p + 1, r)
       IN IF s[p] = "<" /\ r >= p + 1 /\ e # 0
          THEN (IF tag \in ALLOWED_TAGS THEN <<tag>> ELSE <<>>)
                 \o opened_tags(s, e + 1)
          ELSE opened_tags(s, p + 1)

\* for match in re.finditer(r'</([a-z]+)>', text): pop when the top matches
RECURSIVE closed_tags(_, _, _)
closed_tags(s, p, stack) ==
  IF p > Len(s) THEN stack
  ELSE LET r == LowerRunEnd(s, p + 2)
           tag == SubSeq(s, p + 2, r)
       IN IF /\ StartsWithAt(s, p, <<"<", "/">>)
             /\ r >= p + 2
             /\ r + 1 <= Len(s)
             /\ s[r + 1] = ">"
          THEN closed_tags(s, r + 2,
                 IF /\ tag \in ALLOWED_TAGS
                    /\ stack # <<>>
                    /\ stack[Len(stack)] = tag
                 THEN SubSeq(stack, 1, Len(stack) - 1)
                 ELSE stack)
          ELSE closed_tags(s, p + 1, stack)

\* faulty variant: the closing tags are appended in opening order
RECURSIVE append_closing_in_order(_)
append_closing_in_order(stack) ==
  IF stack = <<>> THEN <<>>
  ELSE <<"<", "/">> \o Head(stack) \o <<">">>
         \o append_closing_in_order(Tail(stack))

\* faulty variant: the appended tags lack the slash
RECURSIVE append_closing_no_slash(_)
append_closing_no_slash(stack) ==
  IF stack = <<>> THEN <<>>
  ELSE <<"<">> \o stack[Len(stack)] \o <<">">>
         \o append_closing_no_slash(SubSeq(stack, 1, Len(stack) - 1))

\* for tag in reversed(opened_tags): text += f'</{tag}>'
RECURSIVE append_closing(_)
append_closing(stack) ==
  IF stack = <<>> THEN <<>>
  ELSE <<"<", "/">> \o stack[Len(stack)] \o <<">">>
         \o append_closing(SubSeq(stack, 1, Len(stack) - 1))

clean(s) ==
  LET stripped == ReSub(s, 1)
      stack == closed_tags(stripped, 1, opened_tags(stripped, 1))
  IN stripped \o append_closing(stack)

(***************************************************************************)
(* Inputs of HTMLCleaner.clean                                              *)
(***************************************************************************)
MaxTokens == 4
MaxRawLen == 6

\* markup tokens: allow-listed tags (one with an attribute) and plain text
MarkupTokens ==
  { <<"<", "b", ">">>, <<"<", "/", "b", ">">>,
    <<"<", "i", ">">>, <<"<", "/", "i", ">">>,
    <<"<", "e", "m", ">">>, <<"<", "/", "e", "m", ">">>,
    <<"<", "b", " ", "x", ">">>, <<"x">> }

\* characters of the strings that are not built from tokens
RawChars == {"<", ">", "/", "b", "r"}

RECURSIVE Concat(_)
Concat(pieces) ==
  IF pieces = <<>> THEN <<>> ELSE Head(pieces) \o Concat(Tail(pieces))

MarkupInputs ==
  { Concat(ts) : ts \in UNION { [1..n -> MarkupTokens] : n \in 0..MaxTokens } }

RawInputs == UNION { [1..n -> RawChars] : n \in 0..MaxRawLen }

(***************************************************************************)
(* Reading a string as markup, for the properties of the output            *)
(***************************************************************************)
RECURSIVE WordRunEnd(_, _)
WordRunEnd(s, p) ==
  IF p <= Len(s) /\ s[p] \in WordChars THEN WordRunEnd(s, p + 1) ELSE p - 1

\* the tags of s in order: <name ...> and </name ...>, name a run of word
\* characters, with no other "<" before the closing ">"
RECURSIVE TagList(_, _)
TagList(s, p) ==
  IF p > Len(s) THEN <<>>
  ELSE LET q == FirstGt(s, p + 1)
           closing == p + 1 <= Len(s) /\ s[p + 1] = "/"
           n == IF closing THEN p + 2 ELSE p + 1
           r == WordRunEnd(s, n)
       IN IF /\ s[p] = "<"
             /\ q # 0
             /\ r >= n
             /\ r < q
             /\ \A k \in (p + 1)..(q - 1) : s[k] # "<"
          THEN <<[closing |-> closing, name |-> SubSeq(s, n, r)]>>
                 \o TagList(s, q + 1)
          ELSE TagList(s, p + 1)

\* the body of a tag made of an allow-listed name: name, /name, or name and
\* attributes after a space
AllowListedBody(body) ==
  /\ \A k \in 1..Len(body) : body[k] # "<"
  /\ \E t \in ALLOWED_TAGS :
       \/ body = t
       \/ body = <<"/">> \o t
       \/ /\ StartsWithAt(body, 1, t \o <<" ">>)
          /\ \A k \in 1..Len(body) : body[k] # "/"

\* s is plain text (no angle bracket) and allow-listed tags only
RECURSIVE IsAllowListedMarkup(_, _)
IsAllowListedMarkup(s, p) ==
  IF p > Len(s) THEN TRUE
  ELSE IF s[p] = ">" THEN FALSE
  ELSE IF s[p] = "<"
       THEN LET q == FirstGt(s, p + 1)
            IN /\ q # 0
               /\ AllowListedBody(SubSeq(s, p + 1, q - 1))
               /\ IsAllowListedMarkup(s, q + 1)
  ELSE IsAllowListedMarkup(s, p + 1)

\* left-to-right stack scan: a closing tag must close the innermost open tag,
\* and nothing stays open at the end
RECURSIVE StackScan(_, _)
StackScan(tags, stack) ==
  IF tags = <<>> THEN stack = <<>>
  ELSE IF ~Head(tags).closing
       THEN StackScan(Tail(tags), Append(stack, Head(tags).name))
  ELSE /\ stack # <<>>
       /\ stack[Len(stack)] = Head(tags).name
       /\ StackScan(Tail(tags), SubSeq(stack, 1, Len(stack) - 1))

WellNested(s) == StackScan(TagList(s, 1), <<>>)

TagCount(s, closing, name) ==
  LET tags == TagList(s, 1)
  IN Cardinality({ k \in 1..Len(tags) :
                     tags[k].closing = closing /\ tags[k].name = name })

SameCounts(s) ==
  LET tags == TagList(s, 1)
  IN \A k \in 1..Len(tags) :
       TagCount(s, FALSE, tags[k].name) = TagCount(s, TRUE, tags[k].name)

(***************************************************************************)
(* Specification of the sanitizer: clean applied once, then again          *)
(***************************************************************************)
CleanerIdle ==
  /\ text = <<>>
  /\ cleaned = <<>>
  /\ recleaned = <<>>
  /\ cpc = "off"

ParserIdle ==
  /\ url = <<>>
  /\ extracted = None
  /\ epc = "off"

Chats == {"chat1", "chat2"}

NoCalls == [list |-> 0, fetch |-> 0, gen |-> 0]

\* an empty chat_data dict: .get gives None
Absent == [transcript |-> None, video_id |-> None]

NoError == ""

NoRequest == [id |-> "", tlang |-> ""]

NoArgs == [question |-> None, transcript |-> None]

BotFresh ==
  /\ chat_data = [c \in Chats |-> Absent]
  /\ chat_id = "chat1"
  /\ message = <<>>
  /\ handler = ""
  /\ video_id = None
  /\ captions = <<>>
  /\ caption_request = NoRequest
  /\ replies = <<>>
  /\ calls = NoCalls
  /\ raised = NoError
  /\ answer_args = NoArgs
  /\ retrieved = [c \in Chats |-> None]

BotIdle == BotFresh /\ pc = "off"

InitClean ==
  /\ text \in MarkupInputs \cup RawInputs
  /\ cleaned = <<>>
  /\ recleaned = <<>>
  /\ cpc = "in"
  /\ ParserIdle
  /\ BotIdle

Clean ==
  /\ cpc = "in"
  /\ cleaned' = clean(text)
  /\ cpc' = "out"
  /\ UNCHANGED <<text, recleaned, parserVars, botVars>>

CleanAgain ==
  /\ cpc = "out"
  /\ recleaned' = clean(cleaned)
  /\ cpc' = "twice"
  /\ UNCHANGED <<text, cleaned, parserVars, botVars>>

NextClean == Clean \/ CleanAgain

SpecClean == InitClean /\ [][NextClean]_vars

\* C1: for an input of plain text and allow-listed tags, the output of clean
\* has as many opening as closing tags of each name and is properly nested
\* (the stack scan meets no mismatched closing tag and ends empty).
C1_Balanced ==
  (cpc \in {"out", "twice"} /\ IsAllowListedMarkup(text, 1))
    => (SameCounts(cleaned) /\ WellNested(cleaned))

\* clean has repaired an input whose closing tags are missing or mismatched
C1_Witness ==
  /\ cpc = "out"
  /\ IsAllowListedMarkup(text, 1)
  /\ Len(TagList(text, 1)) >= 3
  /\ ~WellNested(text)
  /\ ~SameCounts(text)
  /\ WellNested(cleaned)

\* C2: the output of clean holds no tag whose name is outside the allow-list.
C2_NoDisallowedTag ==
  cpc \in {"out", "twice"} =>
    \A k \in 1..Len(TagList(cleaned, 1)) :
      TagList(cleaned, 1)[k].name \in ALLOWED_TAGS

\* C3: on balanced allow-listed markup, clean(clean(x)) = clean(x).
C3_Idempotent ==
  (cpc = "twice" /\ IsAllowListedMarkup(text, 1) /\ WellNested(text))
    => recleaned = cleaned

\* a balanced input that clean changes, cleaned twice
C3_Witness ==
  /\ cpc = "twice"
  /\ IsAllowListedMarkup(text, 1)
  /\ WellNested(text)
  /\ Len(TagList(text, 1)) = 4
  /\ cleaned # text
  /\ recleaned = cleaned

(***************************************************************************)
(* YouTubeTranscriberBot.extract_video_id                                   *)
(***************************************************************************)
IdLen == 11

YOUTU_BE == <<"y", "o", "u", "t", "u", ".", "b", "e", "/">>

\* [0-9A-Za-z_-]
IdChars == WordChars \cup {"-"}

\* [0-9A-Za-z_-]{11} matches at p
IdAt(s, p) ==
  /\ p >= 1
  /\ p + IdLen - 1 <= Len(s)
  /\ \A k \in p..(p + IdLen - 1) : s[k] \in IdChars

\* faulty variant: the rule knows the v= form alone
LongFormAtParameterOnly(s, p) ==
  IF StartsWithAt(s, p, <<"v", "=">>) /\ IdAt(s, p + 2) THEN p + 2 ELSE 0

\* where group 1 starts when (?:v=|\/)([0-9A-Za-z_-]{11}).* matches at p, else 0
LongFormAt(s, p) ==
  IF StartsWithAt(s, p, <<"v", "=">>) /\ IdAt(s, p + 2) THEN p + 2
  ELSE IF StartsWithAt(s, p, <<"/">>) /\ IdAt(s, p + 1) THEN p + 1
  ELSE 0

\* where group 1 starts when (?:youtu\.be\/)([0-9A-Za-z_-]{11}) matches at p, else 0
ShortLinkAt(s, p) ==
  IF StartsWithAt(s, p, YOUTU_BE) /\ IdAt(s, p + Len(YOUTU_BE))
  THEN p + Len(YOUTU_BE)
  ELSE 0

\* re.search with the first pattern: group 1 of the leftmost match, or None
SearchLongForm(s) ==
  IF \E p \in 1..Len(s) : LongFormAt(s, p) # 0
  THEN LET p == CHOOSE p \in 1..Len(s) :
                  /\ LongFormAt(s, p) # 0
                  /\ \A q \in 1..(p - 1) : LongFormAt(s, q) = 0
           g == LongFormAt(s, p)
       IN SubSeq(s, g, g + IdLen - 1)
  ELSE None

\* re.search with the second pattern
SearchShortLink(s) ==
  IF \E p \in 1..Len(s) : ShortLinkAt(s, p) # 0
  THEN LET p == CHOOSE p \in 1..Len(s) :
                  /\ ShortLinkAt(s, p) # 0
                  /\ \A q \in 1..(p - 1) : ShortLinkAt(s, q) = 0
           g == ShortLinkAt(s, p)
       IN SubSeq(s, g, g + IdLen - 1)
  ELSE None

\* for pattern in patterns: return the group of the first pattern that matches
extract_video_id(s) ==
  IF SearchLongForm(s) # None THEN SearchLongForm(s)
  ELSE IF SearchShortLink(s) # None THEN SearchShortLink(s)
  ELSE None

(***************************************************************************)
(* Inputs of extract_video_id                                               *)
(***************************************************************************)
MaxUrlPieces == 3

HTTPS == <<"h", "t", "t", "p", "s", ":", "/", "/">>
WWW_YOUTUBE == <<"w", "w", "w", ".", "y", "o", "u", "t", "u", "b", "e", ".", "c", "o", "m", "/">>
WATCH == <<"w", "a", "t", "c", "h", "?", "v", "=">>
TIME_PARAM == <<"&", "t", "=", "5", "s">>
HELLO == <<"h", "e", "l", "l", "o", ",", " ", "h", "o", "w", " ", "a", "r", "e", " ", "y", "o", "u", "?">>
\* two identifiers, and ten identifier characters
VIDEO_A == <<"d", "Q", "w", "4", "w", "9", "W", "g", "X", "c", "Q">>
VIDEO_B == <<"a", "-", "b", "_", "c", "1", "d", "2", "e", "3", "F">>
TEN == <<"a", "b", "c", "d", "e", "f", "g", "h", "i", "j">>

SampleIds == {VIDEO_A, VIDEO_B}

UrlPieces ==
  {HTTPS, YOUTU_BE, WWW_YOUTUBE, WATCH, TIME_PARAM, HELLO, VIDEO_A, VIDEO_B, TEN}

UrlInputs ==
  { Concat(ps) : ps \in UNION { [1..n -> UrlPieces] : n \in 0..MaxUrlPieces } }

InitParse ==
  /\ url \in UrlInputs
  /\ extracted = None
  /\ epc = "in"
  /\ CleanerIdle
  /\ BotIdle

Extract ==
  /\ epc = "in"
  /\ extracted' = extract_video_id(url)
  /\ epc' = "out"
  /\ UNCHANGED <<url, cleanerVars, botVars>>

NextParse == Extract

SpecParse == InitParse /\ [][NextParse]_vars

\* an identifier token: v= or / followed by eleven identifier characters
HasToken(s) ==
  \E p \in 1..Len(s) :
    \/ StartsWithAt(s, p, <<"v", "=">>) /\ IdAt(s, p + 2)
    \/ StartsWithAt(s, p, <<"/">>) /\ IdAt(s, p + 1)

\* the token t stands in s right after v= or /
TokenIn(s, t) ==
  \E p \in 1..Len(s) :
    \/ StartsWithAt(s, p, <<"v", "=">> \o t)
    \/ StartsWithAt(s, p, <<"/">> \o t)

\* C6: extract_video_id returns None exactly when the text holds no token; a
\* returned identifier is eleven characters of [0-9A-Za-z_-] standing in the
\* text after v= or /; a short link and a watch?v=<id>&t=5s text yield their
\* identifier, and a text without a token yields None.
C6_Extract ==
  epc = "out" =>
    /\ (extracted = None) <=> ~HasToken(url)
    /\ extracted # None =>
         /\ Len(extracted) = 11
         /\ \A k \in 1..Len(extracted) : extracted[k] \in IdChars
         /\ TokenIn(url, extracted)
    /\ \A id \in SampleIds :
         /\ url = HTTPS \o YOUTU_BE \o id => extracted = id
         /\ url = WATCH \o id \o TIME_PARAM => extracted = id
    /\ url = HELLO => extracted = None

\* the short link has been parsed to its identifier
C6_Witness ==
  /\ epc = "out"
  /\ url = HTTPS \o YOUTU_BE \o VIDEO_A
  /\ extracted = VIDEO_A

(***************************************************************************)
(* YouTubeTranscriberBot: the message handlers                              *)
(***************************************************************************)
YOUTUBE_COM == <<"y", "o", "u", "t", "u", "b", "e", ".", "c", "o", "m">>
YOUTU_BE_HOST == <<"y", "o", "u", "t", "u", ".", "b", "e">>

\* t in s
Contains(s, t) == \E p \in 1..(Len(s) + 1) : StartsWithAt(s, p, t)

\* the texts of the messages a chat sends
LINK_A == HTTPS \o YOUTU_BE \o VIDEO_A
LINK_B == HTTPS \o WWW_YOUTUBE \o WATCH \o VIDEO_B
LINK_NO_ID == HTTPS \o YOUTUBE_COM
QUESTION == HELLO
Messages == {LINK_A, LINK_B, LINK_NO_ID, QUESTION, WATCH \o VIDEO_A \o TIME_PARAM}

\* what an outbound HTTP call does: it raises with str(e) = error, or answers
\* with a status and a body
\* the error strings _get_captions builds itself
API_ERROR == <<"a", "p", "i">>
NOT_FOUND == <<"n", "o", "n", "e">>

ErrorTexts == {<<>>, <<"b", "o", "o", "m">>}
Statuses == {200, 403}
Listings ==
  {<<>>, <<"ru">>, <<"en">>, <<"fr">>, <<"en", "ru">>, <<"fr", "en">>}
CaptionTexts == {<<>>, <<"h", "i">>, <<"t", "e", "x", "t">>}
Contents == {<<"<", "b", ">", "o", "k">>, <<"<", "i", ">", "a", "<", "/", "i", ">", "<", "b", "r", ">">>}

ListOutcomes ==
  [raises : {TRUE}, error : ErrorTexts, status : {0}, items : {<<>>}]
    \cup [raises : {FALSE}, error : {<<>>}, status : Statuses, items : Listings]

FetchOutcomes ==
  [raises : {TRUE}, error : ErrorTexts, status : {0}, body : {<<>>}]
    \cup [raises : {FALSE}, error : {<<>>}, status : Statuses, body : CaptionTexts]

GenOutcomes ==
  [raises : {TRUE}, content : {<<>>}] \cup [raises : {FALSE}, content : Contents]

\* 'text' in item
TEXT_KEY == <<"t", "e", "x", "t">>

TYPE_ERROR == <<"TypeError">>

\* _clean_transcript(transcript_list) on a str: each item is one character;
\* an item holding 'text' would be indexed with a str, a TypeError; the items
\* without 'text' are skipped, and ' '.join of what is left is returned
clean_transcript(transcript_list) ==
  LET items == [k \in 1..Len(transcript_list) |-> <<transcript_list[k]>>]
      cleaned_text == SelectSeq(items, LAMBDA item : Contains(item, TEXT_KEY))
  IN IF cleaned_text # <<>> THEN TYPE_ERROR ELSE Concat(cleaned_text)

\* faulty variant: en_caption or ru_caption
select_caption_english_first(items) ==
  IF \E k \in 1..Len(items) : items[k] = "en" THEN "en"
  ELSE IF \E k \in 1..Len(items) : items[k] = "ru" THEN "ru"
  ELSE ""

\* next(... language == "ru"), next(... language == "en"); ru_caption or en_caption
select_caption(items) ==
  IF \E k \in 1..Len(items) : items[k] = "ru" THEN "ru"
  ELSE IF \E k \in 1..Len(items) : items[k] = "en" THEN "en"
  ELSE ""

reply_html(kind, body) ==
  replies' = Append(replies, [kind |-> kind, body |-> body])

BotInit ==
  /\ BotFresh
  /\ pc = "idle"
  /\ CleanerIdle
  /\ ParserIdle

\* handle_message: a YouTube link or a question
handle_message(c, m) ==
  /\ pc = "idle"
  /\ chat_id' = c
  /\ message' = m
  /\ handler' = IF Contains(m, YOUTUBE_COM) \/ Contains(m, YOUTU_BE_HOST)
                THEN "link" ELSE "question"
  /\ pc' = handler'
  /\ video_id' = None
  /\ captions' = <<>>
  /\ caption_request' = NoRequest
  /\ replies' = <<>>
  /\ calls' = NoCalls
  /\ raised' = NoError
  /\ answer_args' = NoArgs
  /\ UNCHANGED <<chat_data, retrieved, cleanerVars, parserVars>>

\* _process_youtube_link up to the call of _get_captions
process_youtube_link ==
  /\ pc = "link"
  /\ video_id' = extract_video_id(message)
  /\ IF video_id' = None
     THEN /\ reply_html("invalid_link", <<>>)
          /\ raised' = "InvalidReference"
          /\ pc' = "idle"
     ELSE /\ reply_html("processing", <<>>)
          /\ raised' = raised
          /\ pc' = "captions"
  /\ UNCHANGED <<chat_data, chat_id, message, handler, captions,
                 caption_request, calls, answer_args, retrieved,
                 cleanerVars, parserVars>>

\* faulty variant: the exception is logged and the user is told nothing
except_video_silent(kind) ==
  /\ replies' = replies
  /\ raised' = kind
  /\ pc' = "idle"

\* except Exception as e: the reply with the details, in _process_youtube_link
except_video(kind) ==
  /\ reply_html("video_error", <<>>)
  /\ raised' = kind
  /\ pc' = "idle"

\* faulty variant: a failed retrieval is tried again
captions_error_retry(error) ==
  /\ raised' = "TranscriptUnavailable"
  /\ replies' = replies
  /\ pc' = "captions"
  /\ caption_request' = NoRequest
  /\ UNCHANGED <<chat_data, retrieved>>

\* faulty variant: the context is written before the error is looked at
captions_error_stored(error) ==
  /\ IF error # <<>>
     THEN reply_html("subtitles_error", <<>>)
     ELSE reply_html("video_error", <<>>)
  /\ raised' = "TranscriptUnavailable"
  /\ pc' = "idle"
  /\ chat_data' = [chat_data EXCEPT ![chat_id] =
                     [transcript |-> None, video_id |-> video_id]]
  /\ UNCHANGED <<caption_request, retrieved>>

\* _get_captions returned (None, error): with a non-empty error the reply of
\* "if error:", with an empty one _clean_transcript(None) raises and the
\* except clause replies
captions_error(error) ==
  /\ IF error # <<>>
     THEN /\ reply_html("subtitles_error", <<>>)
          /\ raised' = "TranscriptUnavailable"
          /\ pc' = "idle"
     ELSE except_video("TranscriptUnavailable")
  /\ UNCHANGED <<chat_data, caption_request, retrieved>>

\* _get_captions: the listing call and the choice of the caption
get_captions_list(o) ==
  /\ pc = "captions"
  /\ calls' = [calls EXCEPT !.list = @ + 1]
  /\ IF o.raises
     THEN /\ captions_error(o.error)
          /\ captions' = captions
     ELSE IF o.status # 200
     THEN /\ captions_error(API_ERROR)
          /\ captions' = captions
     ELSE /\ captions' = o.items
          /\ IF select_caption(o.items) = ""
             THEN captions_error(NOT_FOUND)
             ELSE /\ caption_request' =
                       [id |-> select_caption(o.items), tlang |-> ""]
                  /\ pc' = "caption_text"
                  /\ UNCHANGED <<chat_data, replies, raised, retrieved>>
  /\ UNCHANGED <<chat_id, message, handler, video_id, answer_args,
                 cleanerVars, parserVars>>

\* _get_captions: the call for the caption's text; then _process_youtube_link
\* cleans the transcript and saves the context
get_caption_text(o) ==
  /\ pc = "caption_text"
  /\ calls' = [calls EXCEPT !.fetch = @ + 1]
  /\ IF o.raises
     THEN captions_error(o.error)
     ELSE IF o.status # 200
     THEN captions_error(API_ERROR)
     ELSE IF clean_transcript(o.body) = TYPE_ERROR
     THEN /\ except_video("TranscriptUnavailable")
          /\ UNCHANGED <<chat_data, caption_request, retrieved>>
     ELSE /\ chat_data' = [chat_data EXCEPT ![chat_id] =
                             [transcript |-> clean_transcript(o.body),
                              video_id |-> video_id]]
          /\ retrieved' = [retrieved EXCEPT ![chat_id] = o.body]
          /\ pc' = "summary"
          /\ UNCHANGED <<caption_request, replies, raised>>
  /\ UNCHANGED <<chat_id, message, handler, video_id, captions, answer_args,
                 cleanerVars, parserVars>>

\* _generate_summary and the reply with the summary
generate_summary(o) ==
  /\ pc = "summary"
  /\ calls' = [calls EXCEPT !.gen = @ + 1]
  /\ IF o.raises
     THEN except_video("GenerationFailed")
     ELSE /\ reply_html("summary", clean(o.content))
          /\ raised' = raised
          /\ pc' = "idle"
  /\ UNCHANGED <<chat_data, chat_id, message, handler, video_id, captions,
                 caption_request, answer_args, retrieved,
                 cleanerVars, parserVars>>

\* faulty variant: the question goes to the backend whatever the context holds
process_question_unchecked(o) ==
  /\ pc = "question"
  /\ calls' = [calls EXCEPT !.gen = @ + 1]
  /\ answer_args' =
       [question |-> message, transcript |-> chat_data[chat_id].transcript]
  /\ reply_html("answer", clean(o.content))
  /\ raised' = raised
  /\ pc' = "idle"
  /\ UNCHANGED <<chat_data, chat_id, message, handler, video_id, captions,
                 caption_request, retrieved, cleanerVars, parserVars>>

\* _process_question, with _get_answer
process_question(o) ==
  /\ pc = "question"
  /\ LET transcript == chat_data[chat_id].transcript
     IN IF transcript = None \/ transcript = <<>>
        THEN /\ reply_html("no_transcript", <<>>)
             /\ raised' = "NoActiveTranscript"
             /\ UNCHANGED <<calls, answer_args>>
        ELSE /\ calls' = [calls EXCEPT !.gen = @ + 1]
             /\ answer_args' = [question |-> message, transcript |-> transcript]
             /\ IF o.raises
                THEN /\ reply_html("question_error", <<>>)
                     /\ raised' = "GenerationFailed"
                ELSE /\ reply_html("answer", clean(o.content))
                     /\ raised' = raised
  /\ pc' = "idle"
  /\ UNCHANGED <<chat_data, chat_id, message, handler, video_id, captions,
                 caption_request, retrieved, cleanerVars, parserVars>>

Next ==
  \/ \E c \in Chats, m \in Messages : handle_message(c, m)
  \/ process_youtube_link
  \/ \E o \in ListOutcomes : get_captions_list(o)
  \/ \E o \in FetchOutcomes : get_caption_text(o)
  \/ \E o \in GenOutcomes : generate_summary(o)
  \/ \E o \in GenOutcomes : process_question(o)

Spec == BotInit /\ [][Next]_vars

LastReply == replies[Len(replies)].kind

\* C4: once a reference with a non-empty caption text has been processed in a
\* chat, a question there goes to _get_answer with the stored transcript and
\* is not answered with the prompt to send a video first.
C4_QuestionUsesTranscript ==
  ( /\ pc = "idle"
    /\ handler = "question"
    /\ retrieved[chat_id] # None
    /\ retrieved[chat_id] # <<>> )
    => /\ LastReply # "no_transcript"
       /\ answer_args = [question |-> message,
                         transcript |-> chat_data[chat_id].transcript]

\* C5: a question in a chat where nothing was ever stored gets the prompt to
\* send a video first, no outbound call is made, and the context stays empty.
C5_NoActiveTranscript ==
  (pc = "idle" /\ handler = "question" /\ retrieved[chat_id] = None)
    => /\ replies = <<[kind |-> "no_transcript", body |-> <<>>]>>
       /\ raised = "NoActiveTranscript"
       /\ calls = NoCalls
       /\ answer_args = NoArgs
       /\ chat_data[chat_id] = Absent

\* a question was answered with the prompt while another chat holds a context
C5_Witness ==
  /\ pc = "idle"
  /\ handler = "question"
  /\ retrieved[chat_id] = None
  /\ LastReply = "no_transcript"
  /\ \E c \in Chats : retrieved[c] # None

\* C7 (as claimed): with the secondary language alone listed, the caption is
\* asked for in translation to the primary language.
C7_Translated ==
  (pc = "caption_text" /\ select_caption(captions) = "en")
    => caption_request.tlang = "ru"

\* C7 (amended): the primary language is chosen when listed; with the
\* secondary language alone listed its caption is chosen and asked for as it
\* is, without translation; with neither listed the retrieval fails with
\* TranscriptUnavailable, no caption text is fetched and nothing is stored.
C7_Fallback ==
  /\ pc \in {"caption_text", "summary"} =>
       /\ caption_request.tlang = ""
       /\ (\E k \in 1..Len(captions) : captions[k] = "ru")
            => caption_request.id = "ru"
       /\ (\A k \in 1..Len(captions) : captions[k] # "ru")
            => /\ \E k \in 1..Len(captions) : captions[k] = "en"
               /\ caption_request.id = "en"
  /\ ( /\ handler = "link"
       /\ calls.list = 1
       /\ \A k \in 1..Len(captions) : captions[k] \notin {"ru", "en"} )
       => /\ pc = "idle"
          /\ raised = "TranscriptUnavailable"
          /\ calls.fetch = 0
          /\ caption_request = NoRequest

\* the secondary language alone was listed and its caption has been fetched
C7_Witness ==
  /\ pc = "summary"
  /\ captions = <<"fr", "en">>
  /\ caption_request = [id |-> "en", tlang |-> ""]
  /\ calls.fetch = 1

\* C8: each outbound call is made at most once for a message, and a message
\* that ran into a failure is over, with an error reply as its last reply.
C8_NoRetry ==
  /\ calls.list <= 1
  /\ calls.fetch <= 1
  /\ calls.gen <= 1
  /\ raised \in {"TranscriptUnavailable", "GenerationFailed"} =>
       /\ pc = "idle"
       /\ LastReply \in {"subtitles_error", "video_error", "question_error"}

\* the caption fetch failed after a listing that succeeded
C8_Witness ==
  /\ pc = "idle"
  /\ raised = "TranscriptUnavailable"
  /\ calls = [list |-> 1, fetch |-> 1, gen |-> 0]
  /\ LastReply = "subtitles_error"

ErrorReplies(kind) ==
  CASE kind = "InvalidReference" -> {"invalid_link"}
    [] kind = "TranscriptUnavailable" -> {"subtitles_error", "video_error"}
    [] kind = "NoActiveTranscript" -> {"no_transcript"}
    [] kind = "GenerationFailed" -> {"video_error", "question_error"}

\* C9: a message that ran into one of the four error kinds got the reply that
\* explains it, its handler is over, and the next message can be handled.
C9_ErrorsReported ==
  raised # NoError =>
    /\ raised \in {"InvalidReference", "TranscriptUnavailable",
                   "NoActiveTranscript", "GenerationFailed"}
    /\ pc = "idle"
    /\ LastReply \in ErrorReplies(raised)
    /\ \A c \in Chats, m \in Messages : ENABLED handle_message(c, m)

\* the summary failed in one chat after the other chat's context was stored
C9_Witness ==
  /\ pc = "idle"
  /\ raised = "GenerationFailed"
  /\ LastReply = "video_error"
  /\ \E c \in Chats : c # chat_id /\ retrieved[c] # None

\* C10: chat_data changes only in the step that ends a successful retrieval
\* of a link message, only for that chat, to the new transcript and video id;
\* the new pair is in place while the summary is generated and after it.
C10_Frame ==
  /\ [](pc = "summary" => chat_data[chat_id].video_id = video_id)
  /\ []((handler = "link" /\ raised = "GenerationFailed")
          => chat_data[chat_id].video_id = video_id)
  /\ [][chat_data' # chat_data =>
          /\ pc = "caption_text"
          /\ pc' = "summary"
          /\ handler = "link"
          /\ video_id # None
          /\ \A c \in Chats \ {chat_id} : chat_data'[c] = chat_data[c]
          /\ chat_data'[chat_id].video_id = video_id]_vars

\* the summary of a second reference failed; its pair replaced the first one
C10_Witness ==
  /\ pc = "idle"
  /\ raised = "GenerationFailed"
  /\ retrieved[chat_id] = <<"h", "i">>
  /\ video_id = VIDEO_B
  /\ chat_data[chat_id].video_id = VIDEO_B

====
